---- MODULE Spec2Model ----
(***************************************************************************)
(* A model of the raggio software rasterizer: the triangle math of         *)
(* src/src/math.rs and the swap chain of src/src/swap_chain.rs.            *)
(*                                                                         *)
(* Pixel coordinates are i32 values.  The arithmetic of Triangle2D::area   *)
(* and Triangle2D::hit_test is modelled with two's complement wrapping     *)
(* (what a build without overflow checks computes); every operation also   *)
(* reports whether it left the i32 range, which is where a build with      *)
(* overflow checks panics.                                                 *)
(*                                                                         *)
(* An f32 is modelled as a record: [k |-> "fin", n |-> n] is the value     *)
(* n / NdcOne, [k |-> "inf", n |-> 1 or -1] is an infinity and             *)
(* [k |-> "nan", n |-> 0] is NaN.  NdcOne is a power of two and the finite *)
(* values used are small enough that f32 computes on them exactly.         *)
(***************************************************************************)
EXTENDS Integers, Sequences, FiniteSets, TLC

(***************************************************************************)
(* Bounds of the model.                                                    *)
(***************************************************************************)
\* The largest width and the largest height of an extent.
MaxDim == 2
\* The most triangles drawn between two fills of the buffer.
MaxTris == 2
\* How far outside the extent the model follows the candidate loop.
ScanMargin == 1
\* Finite f32 values are multiples of 1 / 2^NdcBits.
NdcBits == 2
\* The largest coordinate of the triangles and points of the math checks.
MathMax == 2

NdcOne == 2 ^ NdcBits

(***************************************************************************)
(* i32 arithmetic.                                                         *)
(***************************************************************************)
I32Max == 2147483647
I32Min == (-I32Max) - 1
Limb == 2 ^ 16

SubOverflows(a, b) ==
    \/ b > 0 /\ a < I32Min + b
    \/ b < 0 /\ a > I32Max + b

\* a - b modulo 2^32, as an i32.
WrapSub(a, b) ==
    IF b > 0 /\ a < I32Min + b THEN ((a - I32Min) + (I32Max - b)) + 1
    ELSE IF b < 0 /\ a > I32Max + b THEN ((a - I32Max) + (I32Min - b)) - 1
    ELSE a - b

AddOverflows(a, b) ==
    \/ a > 0 /\ b > 0 /\ a > I32Max - b
    \/ a < 0 /\ b < 0 /\ a < I32Min - b

\* a + b modulo 2^32, as an i32.
WrapAdd(a, b) ==
    IF a > 0 /\ b > 0 /\ a > I32Max - b THEN ((a - I32Max) + (b - I32Max)) - 2
    ELSE IF a < 0 /\ b < 0 /\ a < I32Min - b THEN (a - I32Min) + (b - I32Min)
    ELSE a + b

AbsOverflows(a) == a = I32Min

WrapAbs(a) == IF a = I32Min THEN I32Min ELSE IF a < 0 THEN -a ELSE a

\* The magnitude of an i32 as two 16-bit limbs (2^31 has no i32 of its own).
MagHi(a) == IF a = I32Min THEN 32768 ELSE (IF a < 0 THEN -a ELSE a) \div Limb
MagLo(a) == IF a = I32Min THEN 0 ELSE (IF a < 0 THEN -a ELSE a) % Limb

\* The product of two 16-bit limbs as the pair <<high limb, low limb>>.
LimbMul(p, q) ==
    LET p1 == p \div 256
        p0 == p % 256
        q1 == q \div 256
        q0 == q % 256
        t  == (p1 * q0 + p0 * q1) * 256 + p0 * q0
    IN  << (p1 * q1 + t \div Limb), t % Limb >>

\* |a| * |b| modulo 2^32 as <<high limb, low limb>>.
MagMul(a, b) ==
    LET ll == LimbMul(MagLo(a), MagLo(b))
        hi == (ll[1] % Limb) + ((MagHi(a) * MagLo(b)) % Limb)
                             + ((MagLo(a) * MagHi(b)) % Limb)
    IN  << hi % Limb, ll[2] >>

\* The two's complement of a 32-bit pattern.
LimbNeg(u) ==
    IF u[1] = 0 /\ u[2] = 0 THEN u
    ELSE << ((Limb - 1) - u[1] + (IF u[2] = 0 THEN 1 ELSE 0)) % Limb,
            (Limb - u[2]) % Limb >>

\* A 32-bit pattern read as an i32.
LimbSigned(u) ==
    IF u[1] >= 32768 THEN (u[1] - Limb) * Limb + u[2] ELSE u[1] * Limb + u[2]

\* Operands whose product is in the i32 range whatever their signs.
SmallPair(a, b) == -46340 <= a /\ a <= 46340 /\ -46340 <= b /\ b <= 46340

\* a * b modulo 2^32, as an i32.
WrapMul(a, b) ==
    IF SmallPair(a, b) THEN a * b
    ELSE LET m == MagMul(a, b)
         IN  LimbSigned(IF (a < 0) = (b < 0) THEN m ELSE LimbNeg(m))

\* Whether |a| * |b| is at most 2^31 - 1 (a, b other than I32Min).
MagFits(a, b) ==
    LET ma == IF a < 0 THEN -a ELSE a
        mb == IF b < 0 THEN -b ELSE b
    IN  ma = 0 \/ mb <= I32Max \div ma

\* Whether |a| * |b| is exactly 2^31 (a, b other than I32Min and 0).
MagIsMin(a, b) ==
    LET ma == IF a < 0 THEN -a ELSE a
        mb == IF b < 0 THEN -b ELSE b
    IN  I32Max % ma = ma - 1 /\ mb = (I32Max \div ma) + 1

MulOverflows(a, b) ==
    IF SmallPair(a, b) \/ a = 0 \/ b = 0 THEN FALSE
    ELSE IF a = I32Min THEN b # 1
    ELSE IF b = I32Min THEN a # 1
    ELSE IF (a < 0) = (b < 0) THEN ~MagFits(a, b)
    ELSE ~(MagFits(a, b) \/ MagIsMin(a, b))

(***************************************************************************)
(* src/src/math.rs                                                         *)
(***************************************************************************)
min(lhs, rhs) == IF lhs < rhs THEN lhs ELSE rhs

max(lhs, rhs) == IF lhs > rhs THEN lhs ELSE rhs

Vector2(x, y) == [x |-> x, y |-> y]

\* Triangle2D(a, b, c): self.0, self.1, self.2 are t[1], t[2], t[3].
Triangle2D(a, b, c) == << a, b, c >>

Range(start, end) == [start |-> start, end |-> end]

InRange(r, v) == r.start <= v /\ v < r.end

Rectangle2D(lefttopmost, rightbottommost) ==
    [lefttopmost |-> lefttopmost, rightbottommost |-> rightbottommost]

x(rect) == rect.lefttopmost.x

y(rect) == rect.lefttopmost.y

\* x_range with the maximum bound included.
x_range_inclusive(rect) == Range(rect.lefttopmost.x, WrapAdd(rect.rightbottommost.x, 1))

x_range(rect) == Range(rect.lefttopmost.x, rect.rightbottommost.x)

y_range(rect) == Range(rect.lefttopmost.y, rect.rightbottommost.y)

\* Points so near the origin that no operation of `area` or `hit_test` on
\* them can leave the i32 range: differences within 2^14, products within
\* 2^28, and a sum of three areas within 2^30.
TamePoint(p) == -8191 <= p.x /\ p.x <= 8191 /\ -8191 <= p.y /\ p.y <= 8191

Tame(t) == TamePoint(t[1]) /\ TamePoint(t[2]) /\ TamePoint(t[3])

\* The expression of `area` where overflow wraps.
WrapArea(t) ==
    WrapAbs(WrapSub(WrapMul(WrapSub(t[2].x, t[1].x), WrapSub(t[3].y, t[1].y)),
                    WrapMul(WrapSub(t[3].x, t[1].x), WrapSub(t[2].y, t[1].y))))

\* The same expression in unbounded integers.
ExactArea(t) ==
    LET d == (t[2].x - t[1].x) * (t[3].y - t[1].y)
                - (t[3].x - t[1].x) * (t[2].y - t[1].y)
    IN  IF d < 0 THEN -d ELSE d

\* The value `area` returns (where overflow wraps); on a tame triangle
\* nothing wraps and the two expressions agree.
area(t) == IF Tame(t) THEN ExactArea(t) ELSE WrapArea(t)

\* Whether an operation of `area` overflows (a panic where overflow is checked).
area_overflows(t) ==
    IF Tame(t) THEN FALSE
    ELSE LET d1 == WrapSub(t[2].x, t[1].x)
             d2 == WrapSub(t[3].y, t[1].y)
             d3 == WrapSub(t[3].x, t[1].x)
             d4 == WrapSub(t[2].y, t[1].y)
             m1 == WrapMul(d1, d2)
             m2 == WrapMul(d3, d4)
         IN  \/ SubOverflows(t[2].x, t[1].x)
             \/ SubOverflows(t[3].y, t[1].y)
             \/ SubOverflows(t[3].x, t[1].x)
             \/ SubOverflows(t[2].y, t[1].y)
             \/ MulOverflows(d1, d2)
             \/ MulOverflows(d3, d4)
             \/ SubOverflows(m1, m2)
             \/ AbsOverflows(WrapSub(m1, m2))

\* max_x that leaves the third vertex out.
max_x_of_two(t) == max(t[1].x, t[2].x)

max_x(t) == max(t[1].x, max(t[2].x, t[3].x))

max_y(t) == max(t[1].y, max(t[2].y, t[3].y))

min_x(t) == min(t[1].x, min(t[2].x, t[3].x))

min_y(t) == min(t[1].y, min(t[2].y, t[3].y))

encapsulating_rectangle(t) ==
    Rectangle2D(Vector2(min_x(t), min_y(t)), Vector2(max_x(t), max_y(t)))

\* The value `hit_test` returns (where overflow wraps).
hit_test(t, point) ==
    IF Tame(t) /\ TamePoint(point)
    THEN ExactArea(Triangle2D(point, t[1], t[2]))
            + ExactArea(Triangle2D(point, t[2], t[3]))
            + ExactArea(Triangle2D(point, t[3], t[1])) = ExactArea(t)
    ELSE LET a1 == area(Triangle2D(point, t[1], t[2]))
             a2 == area(Triangle2D(point, t[2], t[3]))
             a3 == area(Triangle2D(point, t[3], t[1]))
         IN  WrapAdd(WrapAdd(a1, a2), a3) = area(t)

\* Whether an operation of `hit_test` overflows.
hit_test_overflows(t, point) ==
    IF Tame(t) /\ TamePoint(point) THEN FALSE
    ELSE LET a1 == area(Triangle2D(point, t[1], t[2]))
             a2 == area(Triangle2D(point, t[2], t[3]))
             a3 == area(Triangle2D(point, t[3], t[1]))
         IN  \/ area_overflows(t)
             \/ area_overflows(Triangle2D(point, t[1], t[2]))
             \/ area_overflows(Triangle2D(point, t[2], t[3]))
             \/ area_overflows(Triangle2D(point, t[3], t[1]))
             \/ AddOverflows(a1, a2)
             \/ AddOverflows(WrapAdd(a1, a2), a3)

(***************************************************************************)
(* src/src/lib.rs                                                          *)
(***************************************************************************)
Pixel(red, green, blue, alpha) ==
    [red |-> red, green |-> green, blue |-> blue, alpha |-> alpha]

BLACK == Pixel(0, 0, 0, 15)

RED == Pixel(255, 255, 255, 255)

TriangleVertices(a, b, c) == [a |-> a, b |-> b, c |-> c]

(***************************************************************************)
(* f32 values and the shaders of src/examples/simple.rs                    *)
(***************************************************************************)
Fin(n) == [k |-> "fin", n |-> n]

Inf == [k |-> "inf", n |-> 1]

NegInf == [k |-> "inf", n |-> -1]

NaN == [k |-> "nan", n |-> 0]

\* The f32 num / den, for den a power of two dividing NdcOne.
Ndc(num, den) == Fin((num * NdcOne) \div den)

\* A finite value far outside the device range: 2^20.
Huge == 2 ^ 20

\* The colour the example's fragment shader returns.
SKY == Pixel(48, 167, 248, 255)

Palette == << SKY, RED, BLACK >>

\* VertexShader2D::run of the example: the identity.
VertexRun(position) == position

\* FragmentShader2D::run of the model: a shader that counts its invocations
\* and returns the colours of the palette in turn, starting with the
\* example's (`count` is the number of invocations before this one).
FragmentRun(count) == Palette[(count % Len(Palette)) + 1]

(***************************************************************************)
(* src/src/swap_chain.rs                                                   *)
(***************************************************************************)
Extent(width, height) == [width |-> width, height |-> height]

\* create_pixel_buffer sized by the width alone.
create_pixel_buffer_square(width, height, color) == [i \in 1..(width * width) |-> color]

create_pixel_buffer(width, height, color) == [i \in 1..(width * height) |-> color]

\* f32::round of num / den (den > 0): to the nearest, halves away from zero.
Round(num, den) ==
    IF num >= 0 THEN (2 * num + den) \div (2 * den)
    ELSE -(((2 * (-num)) + den) \div (2 * den))

\* ((c + 1.0) / 2.0 * dim as f32).round() as i32: the cast saturates and
\* takes NaN (which is also what an infinity times 0.0 is) to 0.
ScaleToPixel(c, dim) ==
    IF c.k = "nan" THEN 0
    ELSE IF c.k = "inf" THEN (IF dim = 0 THEN 0 ELSE IF c.n > 0 THEN I32Max ELSE I32Min)
    ELSE max(I32Min, min(I32Max, Round((c.n + NdcOne) * dim, 2 * NdcOne)))

\* vertex_to_pixel_position with both axes scaled by the width.
vertex_to_pixel_position_by_width(extent, vertex) ==
    Vector2(ScaleToPixel(vertex.x, extent.width), ScaleToPixel(vertex.y, extent.width))

vertex_to_pixel_position(extent, vertex) ==
    Vector2(ScaleToPixel(vertex.x, extent.width), ScaleToPixel(vertex.y, extent.height))

is_point_inside(extent, point) ==
    /\ point.x >= 0
    /\ point.y >= 0
    /\ point.x < extent.width
    /\ point.y < extent.height

\* The index with the coordinates swapped.
PixelIndexTransposed(extent, point) == point.x * extent.height + point.y

\* The index set_pixel writes.
PixelIndex(extent, point) == point.y * extent.width + point.x

\* self.buffer[index] = color for each write of `writes`, in order: an
\* element keeps the colour of the last write to it.  A write past the end
\* panics; the model leaves the buffer alone there and records it as `oob`.
set_pixel(buf, extent, writes) ==
    [i \in DOMAIN buf |->
        LET hits == {j \in DOMAIN writes : PixelIndex(extent, writes[j]) + 1 = i}
        IN  IF hits = {} THEN buf[i]
            ELSE writes[CHOOSE j \in hits : \A m \in hits : m <= j].color]

OutOfBounds(buf, extent, writes) ==
    \E j \in DOMAIN writes : PixelIndex(extent, writes[j]) >= Len(buf)

\* The values of a coordinate range the candidate loop visits that lie
\* within ScanMargin of the extent, as the half-open range they form.  The
\* loop visits the whole range; a value left out here is one at which
\* is_point_inside is false, so nothing is invoked or written for it.
Scanned(range, dim) ==
    Range(max(range.start, -ScanMargin), min(range.end, dim + ScanMargin))

RangeLen(r) == IF r.end > r.start THEN r.end - r.start ELSE 0

\* The candidate points of a rectangle in the order of the loops: rows
\* outermost, then columns.
Candidates(rect, extent) ==
    LET ys == Scanned(y_range(rect), extent.height)
        xs == Scanned(x_range(rect), extent.width)
        nx == RangeLen(xs)
    IN  [i \in 1..(RangeLen(ys) * nx) |->
            Vector2(xs.start + ((i - 1) % nx), ys.start + ((i - 1) \div nx))]

\* The two tests of the inner loop's body.
Covered(extent, triangle, point) ==
    hit_test(triangle, point) /\ is_point_inside(extent, point)

\* The body of the outer loop for the mapped triangle number `index`: the
\* candidates that pass both tests, in order, each with the colour the
\* fragment shader returns for it, written to the buffer.
RasterizeTriangle(st, extent, triangle, index) ==
    LET points == Candidates(encapsulating_rectangle(triangle), extent)
        passed == SelectSeq(points, LAMBDA p : Covered(extent, triangle, p))
        writes == [j \in DOMAIN passed |->
                      [tri |-> index, x |-> passed[j].x, y |-> passed[j].y,
                       color |-> FragmentRun(Len(st.calls) + j - 1)]]
    IN  [buffer |-> set_pixel(st.buffer, extent, writes),
         calls |-> st.calls \o writes,
         overflowed |-> st.overflowed
                          \/ \E i \in DOMAIN points : hit_test_overflows(triangle, points[i]),
         oob |-> st.oob \/ OutOfBounds(st.buffer, extent, writes)]

\* The outer loop taking the triangles last to first.
RECURSIVE RasterizeAllBackwards(_, _, _, _, _)
RasterizeAllBackwards(st, extent, triangles, base, i) ==
    IF i > Len(triangles) THEN st
    ELSE RasterizeTriangle(RasterizeAllBackwards(st, extent, triangles, base, i + 1),
                           extent, triangles[i], base + i)

\* The outer loop from triangle i on; `base` triangles were drawn before.
RECURSIVE RasterizeAll(_, _, _, _, _)
RasterizeAll(st, extent, triangles, base, i) ==
    IF i > Len(triangles) THEN st
    ELSE RasterizeAll(RasterizeTriangle(st, extent, triangles[i], base + i),
                      extent, triangles, base, i + 1)

\* The pixel-space triangle of an input triangle.
MapTriangle(extent, vertex_triple) ==
    Triangle2D(vertex_to_pixel_position(extent, VertexRun(vertex_triple.a)),
               vertex_to_pixel_position(extent, VertexRun(vertex_triple.b)),
               vertex_to_pixel_position(extent, VertexRun(vertex_triple.c)))

(***************************************************************************)
(* The inputs of the model.                                                *)
(***************************************************************************)
\* The dimensions of an extent: none, and the two largest.
Dims == {0} \cup ((MaxDim - 1)..MaxDim)

Extents == {Extent(w, h) : w \in Dims, h \in Dims}

Colors == {BLACK, RED}

\* The coordinates of the triangles and points of the math checks.
MathCoords == (-1)..MathMax

MathPoints == {Vector2(cx, cy) : cx \in MathCoords, cy \in MathCoords}

MathTriangles == {Triangle2D(a, b, c) : a \in MathPoints, b \in MathPoints, c \in MathPoints}

\* f32 coordinates in and somewhat around the device range, and beyond it.
MathF32 == {Fin(n) : n \in (-(NdcOne + 2))..(NdcOne + 2)} \cup {Ndc(Huge, 1), Inf, NegInf, NaN}

MathVertices == {Vector2(cx, cy) : cx \in MathF32, cy \in MathF32}

\* The triangle of the example.
ExampleTriangle ==
    TriangleVertices(Vector2(Ndc(0, 1), Ndc(-1, 2)), Vector2(Ndc(-1, 2), Ndc(1, 2)),
                     Vector2(Ndc(1, 2), Ndc(1, 2)))

\* The half of the device square on one side of its diagonal.
HalfTriangle ==
    TriangleVertices(Vector2(Ndc(-1, 1), Ndc(-1, 1)), Vector2(Ndc(1, 1), Ndc(-1, 1)),
                     Vector2(Ndc(1, 1), Ndc(1, 1)))

\* Three points of the diagonal of the device square.
DiagonalTriangle ==
    TriangleVertices(Vector2(Ndc(-1, 1), Ndc(-1, 1)), Vector2(Ndc(-1, 4), Ndc(-1, 4)),
                     Vector2(Ndc(1, 4), Ndc(1, 4)))

\* A triangle that reaches out of the device square on every side.
WideTriangle ==
    TriangleVertices(Vector2(Ndc(-3, 2), Ndc(-3, 2)), Vector2(Ndc(3, 2), Ndc(0, 1)),
                     Vector2(Ndc(0, 1), Ndc(3, 2)))

\* A triangle far out of range.
FarTriangle ==
    TriangleVertices(Vector2(Ndc(-Huge, 1), Ndc(-Huge, 1)), Vector2(Ndc(Huge, 1), Ndc(-Huge, 1)),
                     Vector2(Ndc(0, 1), Ndc(Huge, 1)))

Triangles == {ExampleTriangle, HalfTriangle, DiagonalTriangle, WideTriangle, FarTriangle}

\* The lists of 1 to n triangles.
TriangleLists(n) == UNION {[1..m -> Triangles] : m \in 1..n}

(***************************************************************************)
(* The state: the swap chain's fields, and a record of what was done.      *)
(***************************************************************************)
VARIABLES
    extent,      \* SwapChain::extent
    buffer,      \* SwapChain::buffer
    last,        \* the last operation and its arguments
    old,         \* the extent and the buffer's length before the last clear
                 \* or draw_rasterized (after new and resize: what they made)
    before,      \* the buffer before the last draw_rasterized
    drawn,       \* the mapped triangles drawn since the buffer was last filled
    calls,       \* the fragment shader's invocations since then, in order
    overflowed,  \* an i32 operation of the last draw_rasterized overflowed
    oob,         \* the last draw_rasterized wrote past the end of the buffer
    math,        \* the function and the arguments of a math check
    result       \* what the function returned

swap == << extent, buffer, last, old, before, drawn, calls, overflowed, oob >>

vars == << swap, math, result >>

NoMath ==
    [op |-> "none", t |-> Triangle2D(Vector2(0, 0), Vector2(0, 0), Vector2(0, 0)),
     p |-> Vector2(0, 0), extent |-> Extent(0, 0), vertex |-> Vector2(NaN, NaN)]

NoResult ==
    [done |-> FALSE, hit |-> FALSE, overflowed |-> FALSE,
     rect |-> Rectangle2D(Vector2(0, 0), Vector2(0, 0)), x |-> 0, y |-> 0,
     x_range |-> Range(0, 0), y_range |-> Range(0, 0), pixel |-> Vector2(0, 0)]

\* SwapChain::new(size)
new(size) ==
    /\ extent = Extent(size.width, size.height)
    /\ buffer = create_pixel_buffer(size.width, size.height, BLACK)
    /\ last = [op |-> "new", size |-> size, color |-> BLACK, first |-> 0]
    /\ old = [extent |-> size, len |-> size.width * size.height]
    /\ before = << >>
    /\ drawn = << >>
    /\ calls = << >>
    /\ overflowed = FALSE
    /\ oob = FALSE

Init ==
    /\ \E size \in Extents : new(size)
    /\ math = NoMath
    /\ result = NoResult

\* clear that starts at the second element.
clear_all_but_first(color) ==
    /\ buffer' = [i \in DOMAIN buffer |-> IF i = 1 THEN buffer[i] ELSE color]
    /\ last' = [op |-> "clear", size |-> extent, color |-> color, first |-> 0]
    /\ old' = [extent |-> extent, len |-> Len(buffer)]
    /\ before' = << >>
    /\ drawn' = << >>
    /\ calls' = << >>
    /\ overflowed' = FALSE
    /\ oob' = FALSE
    /\ UNCHANGED extent

\* SwapChain::clear(color)
clear(color) ==
    /\ buffer' = [i \in DOMAIN buffer |-> color]
    /\ last' = [op |-> "clear", size |-> extent, color |-> color, first |-> 0]
    /\ old' = [extent |-> extent, len |-> Len(buffer)]
    /\ before' = << >>
    /\ drawn' = << >>
    /\ calls' = << >>
    /\ overflowed' = FALSE
    /\ oob' = FALSE
    /\ UNCHANGED extent

\* SwapChain::resize_with_clear_color(size, color)
resize_with_clear_color(size, color) ==
    /\ extent' = Extent(size.width, size.height)
    /\ buffer' = create_pixel_buffer(size.width, size.height, color)
    /\ last' = [op |-> "resize", size |-> size, color |-> color, first |-> 0]
    /\ old' = [extent |-> size, len |-> size.width * size.height]
    /\ before' = << >>
    /\ drawn' = << >>
    /\ calls' = << >>
    /\ overflowed' = FALSE
    /\ oob' = FALSE

\* SwapChain::draw_rasterized(vertices, vertex_shader, fragment_shader)
draw_rasterized(vertices) ==
    /\ Len(drawn) + Len(vertices) <= MaxTris
    /\ LET triangles == [i \in DOMAIN vertices |-> MapTriangle(extent, vertices[i])]
           st == RasterizeAll([buffer |-> buffer, calls |-> calls,
                               overflowed |-> FALSE, oob |-> FALSE],
                              extent, triangles, Len(drawn), 1)
       IN  /\ buffer' = st.buffer
           /\ calls' = st.calls
           /\ overflowed' = st.overflowed
           /\ oob' = st.oob
           /\ drawn' = drawn \o triangles
    /\ last' = [op |-> "draw", size |-> extent, color |-> BLACK, first |-> Len(drawn) + 1]
    /\ old' = [extent |-> extent, len |-> Len(buffer)]
    /\ before' = buffer
    /\ UNCHANGED extent

Clear == \E color \in Colors : clear(color) /\ UNCHANGED << math, result >>

Resize ==
    \E size \in Extents, color \in Colors :
        resize_with_clear_color(size, color) /\ UNCHANGED << math, result >>

Draw ==
    \E vertices \in TriangleLists(MaxTris) :
        draw_rasterized(vertices) /\ UNCHANGED << math, result >>

Next == Clear \/ Resize \/ Draw

Spec == Init /\ [][Next]_vars

(***************************************************************************)
(* The math checks: a function of math.rs or the mapping of swap_chain.rs  *)
(* applied once to arguments drawn from the sets above.                    *)
(***************************************************************************)
MathInit ==
    /\ new(Extent(0, 0))
    /\ result = NoResult
    /\ \/ \E t \in MathTriangles, p \in MathPoints :
            math = [NoMath EXCEPT !.op = "hit_test", !.t = t, !.p = p]
       \/ \E t \in MathTriangles :
            math = [NoMath EXCEPT !.op = "encapsulating_rectangle", !.t = t]
       \/ \E e \in Extents, v \in MathVertices :
            math = [NoMath EXCEPT !.op = "vertex_to_pixel_position", !.extent = e,
                                  !.vertex = v]

HitTest ==
    /\ math.op = "hit_test"
    /\ ~result.done
    /\ result' = [result EXCEPT !.done = TRUE,
                                !.hit = hit_test(math.t, math.p),
                                !.overflowed = hit_test_overflows(math.t, math.p)]
    /\ UNCHANGED << swap, math >>

EncapsulatingRectangle ==
    /\ math.op = "encapsulating_rectangle"
    /\ ~result.done
    /\ LET rect == encapsulating_rectangle(math.t)
       IN  result' = [result EXCEPT !.done = TRUE, !.rect = rect,
                                    !.x = x(rect), !.y = y(rect),
                                    !.x_range = x_range(rect),
                                    !.y_range = y_range(rect)]
    /\ UNCHANGED << swap, math >>

VertexToPixelPosition ==
    /\ math.op = "vertex_to_pixel_position"
    /\ ~result.done
    /\ result' = [result EXCEPT !.done = TRUE,
                                !.pixel = vertex_to_pixel_position(math.extent, math.vertex)]
    /\ UNCHANGED << swap, math >>

MathNext == HitTest \/ EncapsulatingRectangle \/ VertexToPixelPosition

MathSpec == MathInit /\ [][MathNext]_vars
(***************************************************************************)
(* What the claims are stated with.                                        *)
(***************************************************************************)
SetMin(S) == CHOOSE m \in S : \A e \in S : m <= e

SetMax(S) == CHOOSE m \in S : \A e \in S : e <= m

Xs(t) == {t[1].x, t[2].x, t[3].x}

Ys(t) == {t[1].y, t[2].y, t[3].y}

\* The pixels of the extent.
PixelsOf(e) == {Vector2(px, py) : px \in 0..(e.width - 1), py \in 0..(e.height - 1)}

\* The element of the buffer that holds pixel p.
At(buf, e, p) == buf[p.y * e.width + p.x + 1]

\* p is in the bounding rectangle of t, the maximum bounds left out.
InBoxHalfOpen(t, p) ==
    /\ SetMin(Xs(t)) <= p.x /\ p.x < SetMax(Xs(t))
    /\ SetMin(Ys(t)) <= p.y /\ p.y < SetMax(Ys(t))

\* p is in the bounding rectangle of t, the maximum bounds included.
InBoxClosed(t, p) ==
    /\ SetMin(Xs(t)) <= p.x /\ p.x <= SetMax(Xs(t))
    /\ SetMin(Ys(t)) <= p.y /\ p.y <= SetMax(Ys(t))

\* Triangle t covers pixel p: p is a candidate of the loop and passes the
\* point-in-triangle test.
Covers(t, p) == InBoxHalfOpen(t, p) /\ hit_test(t, p)

\* The invocations of the fragment shader made for triangle i at pixel p.
CallsFor(i, p) == {k \in DOMAIN calls : calls[k].tri = i /\ calls[k].x = p.x /\ calls[k].y = p.y}

\* The pixel an invocation was made for.
CallPixel(k) == Vector2(calls[k].x, calls[k].y)

\* The triangles of the last draw_rasterized.
LastDrawn == last.first..Len(drawn)

\* (b - a) x (c - a) in unbounded integers.
Orient(a, b, c) == (b.x - a.x) * (c.y - a.y) - (c.x - a.x) * (b.y - a.y)

\* p is on the segment from a to b.
OnSegment(a, b, p) ==
    /\ Orient(a, b, p) = 0
    /\ SetMin({a.x, b.x}) <= p.x /\ p.x <= SetMax({a.x, b.x})
    /\ SetMin({a.y, b.y}) <= p.y /\ p.y <= SetMax({a.y, b.y})

\* p is inside triangle t or on its boundary.
InsideOrOnBoundary(t, p) ==
    IF Orient(t[1], t[2], t[3]) # 0
    THEN \/ Orient(t[1], t[2], p) >= 0 /\ Orient(t[2], t[3], p) >= 0 /\ Orient(t[3], t[1], p) >= 0
         \/ Orient(t[1], t[2], p) <= 0 /\ Orient(t[2], t[3], p) <= 0 /\ Orient(t[3], t[1], p) <= 0
    ELSE OnSegment(t[1], t[2], p) \/ OnSegment(t[2], t[3], p) \/ OnSegment(t[3], t[1], p)

\* The vertices of t are collinear or coincident.
Degenerate(t) == Tame(t) /\ Orient(t[1], t[2], t[3]) = 0

Abs(n) == IF n < 0 THEN -n ELSE n

\* r is num / den (den > 0) rounded to the nearest integer, a half rounded
\* away from zero.
IsRounded(r, num, den) ==
    /\ Abs(2 * den * r - 2 * num) <= den
    /\ Abs(2 * den * r - 2 * num) = den => Abs(den * r) > Abs(num)

(***************************************************************************)
(* C1: the buffer always holds exactly width * height pixels.              *)
(***************************************************************************)
BufferMatchesExtent == Len(buffer) = extent.width * extent.height

\* A resize to an extent that is not square has been done.
ResizedToOblong ==
    last.op = "resize" /\ extent.width = 2 /\ extent.height = 1 /\ Len(buffer) = 2

(***************************************************************************)
(* C2: a fill leaves a uniform buffer.  After clear(color) every element   *)
(* is color and the extent and the length are what they were; after        *)
(* resize_with_clear_color(size, color) the extent is size and each of the *)
(* width * height elements is color; in an extent of 0 x 0 the buffer is   *)
(* empty, and clear and draw_rasterized change nothing and do not fault.   *)
(***************************************************************************)
FillIsUniform ==
    /\ last.op = "clear" =>
          /\ \A i \in DOMAIN buffer : buffer[i] = last.color
          /\ extent = old.extent
          /\ Len(buffer) = old.len
    /\ last.op = "resize" =>
          /\ extent = last.size
          /\ DOMAIN buffer = 1..(last.size.width * last.size.height)
          /\ \A i \in 1..(last.size.width * last.size.height) : buffer[i] = last.color
    /\ (extent.width = 0 /\ extent.height = 0) =>
          /\ buffer = << >>
          /\ last.op = "clear" => old.len = 0
          /\ last.op = "draw" => before = << >> /\ calls = << >> /\ ~overflowed /\ ~oob

\* A buffer that a draw had written to has been cleared.
ClearedAfterDraw ==
    /\ last.op = "clear"
    /\ last.color = RED
    /\ Len(buffer) = MaxDim * MaxDim

(***************************************************************************)
(* C3: last triangle wins.  A pixel of the extent that triangles drawn     *)
(* since the last fill cover holds the colour that the fragment shader     *)
(* returned when it was invoked for the last of them in input order.       *)
(***************************************************************************)
LastTriangleWins ==
    \A p \in PixelsOf(extent) :
        LET covering == {i \in DOMAIN drawn : Covers(drawn[i], p)}
        IN  covering # {} =>
                \E k \in CallsFor(SetMax(covering), p) : At(buffer, extent, p) = calls[k].color

\* Two triangles cover a pixel and the shader returned different colours
\* for them.
OverlapWithTwoColours ==
    \E p \in PixelsOf(extent) :
        \E i, j \in DOMAIN drawn :
            /\ i < j
            /\ Covers(drawn[i], p)
            /\ Covers(drawn[j], p)
            /\ \E k \in CallsFor(i, p), m \in CallsFor(j, p) : calls[k].color # calls[m].color

(***************************************************************************)
(* C4: a triangle whose mapped vertices are collinear or coincident gets   *)
(* no invocation of the fragment shader and no pixel.                      *)
(***************************************************************************)
DegenerateDrawsNothing ==
    \A i \in DOMAIN drawn :
        Degenerate(drawn[i]) => \A k \in DOMAIN calls : calls[k].tri # i

(***************************************************************************)
(* C5, as claimed: for each triangle the fragment shader is invoked once   *)
(* for each pixel of the extent that is in the triangle's bounding         *)
(* rectangle, its maximum bounds included, and passes the point-in-        *)
(* triangle test, and for no other pixel; the colour is written to the     *)
(* pixel's element.                                                        *)
(***************************************************************************)
InvokedOnceInClosedBox ==
    /\ \A i \in DOMAIN drawn : \A p \in PixelsOf(extent) :
          Cardinality(CallsFor(i, p)) =
              IF InBoxClosed(drawn[i], p) /\ hit_test(drawn[i], p) THEN 1 ELSE 0
    /\ \A k \in DOMAIN calls : CallPixel(k) \in PixelsOf(extent)

(***************************************************************************)
(* C5, amended: the same with the rectangle's maximum bounds left out (the *)
(* ranges are half-open).  The colour of an invocation is in the pixel's   *)
(* element unless a later invocation was made for the pixel.               *)
(***************************************************************************)
InvokedOnceInHalfOpenBox ==
    /\ \A i \in DOMAIN drawn : \A p \in PixelsOf(extent) :
          Cardinality(CallsFor(i, p)) = IF Covers(drawn[i], p) THEN 1 ELSE 0
    /\ \A k \in DOMAIN calls :
          /\ calls[k].tri \in DOMAIN drawn
          /\ CallPixel(k) \in PixelsOf(extent)
          /\ (\A m \in DOMAIN calls : m > k => CallPixel(m) # CallPixel(k))
                => At(buffer, extent, CallPixel(k)) = calls[k].color

\* A triangle was drawn that has a pixel of the extent on a maximum bound
\* of its rectangle, passing the test, and another inside, invoked.
PixelOnMaximumBound ==
    \E i \in DOMAIN drawn :
        /\ \E p \in PixelsOf(extent) :
              InBoxClosed(drawn[i], p) /\ ~InBoxHalfOpen(drawn[i], p) /\ hit_test(drawn[i], p)
        /\ \E k \in DOMAIN calls : calls[k].tri = i

(***************************************************************************)
(* C6: draw_rasterized never faults: no operation of area and hit_test     *)
(* leaves the i32 range and no write is past the end of the buffer.        *)
(***************************************************************************)
DrawNeverFaults == ~overflowed /\ ~oob

(***************************************************************************)
(* C7: draw_rasterized changes only covered pixels: a pixel that no        *)
(* triangle of the call covers keeps its value, and the extent and the     *)
(* buffer's length are unchanged.                                          *)
(***************************************************************************)
DrawChangesOnlyCovered ==
    last.op = "draw" =>
        /\ extent = old.extent
        /\ Len(buffer) = old.len
        /\ Len(before) = old.len
        /\ \A p \in PixelsOf(extent) :
              (\A i \in LastDrawn : ~Covers(drawn[i], p))
                  => At(buffer, extent, p) = At(before, extent, p)

\* A draw changed a pixel and left another, which no triangle covered.
DrawChangedSomeNotAll ==
    /\ last.op = "draw"
    /\ \E p \in PixelsOf(extent) : At(buffer, extent, p) # At(before, extent, p)
    /\ \E p \in PixelsOf(extent) :
          \A i \in LastDrawn : ~Covers(drawn[i], p)

(***************************************************************************)
(* C8: hit_test returns true exactly for the points inside the triangle or *)
(* on its boundary, for every triangle in any vertex order.                *)
(***************************************************************************)
HitTestIsContainment ==
    (math.op = "hit_test" /\ result.done) =>
        (result.hit <=> InsideOrOnBoundary(math.t, math.p))

EachAxisByItsOwnDimension ==
    /\ (math.op = "vertex_to_pixel_position" /\ result.done) =>
          /\ (math.vertex.x.k = "fin" /\ Abs(math.vertex.x.n) <= NdcOne + 2) =>
                IsRounded(result.pixel.x, (math.vertex.x.n + NdcOne) * math.extent.width,
                          2 * NdcOne)
          /\ (math.vertex.y.k = "fin" /\ Abs(math.vertex.y.n) <= NdcOne + 2) =>
                IsRounded(result.pixel.y, (math.vertex.y.n + NdcOne) * math.extent.height,
                          2 * NdcOne)
    /\ MapTriangle(Extent(100, 100), ExampleTriangle)
          = Triangle2D(Vector2(50, 25), Vector2(25, 75), Vector2(75, 75))

\* A vertex on the diagonal mapped in an extent that is not square.
DiagonalVertexInOblongExtent ==
    /\ math.op = "vertex_to_pixel_position"
    /\ result.done
    /\ math.extent = Extent(2, 1)
    /\ math.vertex = Vector2(Ndc(1, 2), Ndc(1, 2))
    /\ result.pixel = Vector2(2, 1)
====
